---- MODULE Spec2Model ----
(***************************************************************************)
(* Model of the registration/login demo.                                   *)
(*                                                                         *)
(* Client (user-registration-frontend/src/hook/useAuth.js): the axios      *)
(* request/response interceptors with the single in-flight token refresh,  *)
(* the pending-request queue, the credential slot in localStorage and the  *)
(* React authentication state.  JavaScript runs one task at a time: a      *)
(* network response or a user event is a task, promise continuations are   *)
(* microtasks that all run before the next task.  The variable jobs is the *)
(* microtask queue; every task-level action is enabled only when it is     *)
(* empty.                                                                  *)
(*                                                                         *)
(* Server (AuthenticationService): the user collection and registerUser,   *)
(* one step per await.                                                     *)
(***************************************************************************)
EXTENDS Integers, Sequences, FiniteSets, TLC

\* ------------------------------------------------------------------ bounds
NumReq == 3

Reqs == 1..NumReq

\* ------------------------------------------------------- client constants
Unauthorized == 401

\* 0 stands for a failure without a response (error.response undefined)
Statuses == {0, 200, 401, 500}

Tokens == {"tokA", "tokB"}
NoToken == "null"
NoUser == "null"
UserData == "userData"

RefreshUrl == "/refresh-token"
LoginUrl == "/login"
LogoutUrl == "/logout"
ProfileUrl == "/profile"
Urls == {LoginUrl, LogoutUrl, ProfileUrl}

MsgNone == ""
MsgSessionExpired == "Session expired. Please log in again."
MsgLoggedOut == "Logged out successfully."
MsgLoginOk == "Login successful! Welcome."
MsgLoginFailed == "Login Failed"

VARIABLES
    token,            \* localStorage[TOKEN_KEY]
    isAuthenticated,  \* useAuthLogic state
    user,             \* useAuthLogic state
    activeTab,        \* useAuthLogic state
    message,          \* useMessage state: the notice on display
    timers,           \* the instants at which a pending setTimeout callback of
                      \* displayMessage is due (callbacks due at the same
                      \* instant are one entry)
    setAt,            \* history: the instant of the displayMessage call that
                      \* set the notice on display
    clock,            \* the client's clock, in seconds
    isRefreshing,     \* module-level flag
    failedQueue,      \* module-level queue: requests whose continuation waits
    req,              \* the logical requests issued through axiosInstance
    jobs,             \* pending promise continuations (microtasks), in order
    refreshes,        \* history: POST /refresh-token exchanges dispatched so far
    burst             \* history: every request so far was issued before any
                      \* response to an earlier one was handled

noticeVars == <<message, timers, setAt, clock>>

clientVars == <<token, isAuthenticated, user, activeTab, noticeVars,
                isRefreshing, failedQueue, req, jobs, refreshes, burst>>

VARIABLES
    users,            \* the user collection, in insertion order
    calls,            \* the registerUser calls and where each one is
    logins,           \* the loginUser calls and where each one is
    now,              \* the server's clock, in minutes
    issued,           \* history: the access tokens signed so far, each with
                      \* the email of the login that obtained it
    resp              \* the response the server sent in its latest step, if
                      \* that step sent one

registerVars == <<users, calls>>
loginVars == <<logins, now, issued>>
serverVars == <<users, calls, logins, now, issued, resp>>

vars == <<clientVars, serverVars>>

\* error objects: the failure of request id, or of the refresh exchange
ReqError(r, s) == [of |-> "request", id |-> r, status |-> s]
RefreshError(s) == [of |-> "refresh", id |-> 0, status |-> s]
NoError == [of |-> "none", id |-> 0, status |-> 0]

\* a request: its position (st), its config (url, _retry, the Authorization
\* header), how often it went out (sent) and, while the refresh exchange it
\* started is on the wire, that exchange's Authorization header
\* (refreshAuth).  When the request settles only its url and outcome are kept; the error a rejected caller gets is the err
\* of the "fail" continuation that settles it.
IdleReq == [st |-> "idle", url |-> ProfileUrl, retry |-> FALSE, auth |-> NoToken,
            sent |-> 0, refreshAuth |-> NoToken]

Settled(u, outcome) == [IdleReq EXCEPT !.st = outcome, !.url = u]

Job(k, r, t, e) == [kind |-> k, r |-> r, tok |-> t, err |-> e]

\* ------------------------------------------------------- client: helpers

\* faulty variant: the held credential is not attached
AttachBearerNever(hdr) == hdr

\* requestInterceptor: attach the held credential unless the config
\* already carries an Authorization header
AttachBearer(hdr) == IF token # NoToken /\ hdr = NoToken THEN token ELSE hdr

\* axiosInstance(config): the request interceptor runs, the call goes out
Dispatch(q) == [q EXCEPT !.st = "inflight", !.auth = AttachBearer(q.auth),
                         !.sent = @ + 1]

\* faulty variant: the status of the failure is not looked at
NeedsRefreshAnyStatus(s, retried) == ~retried

\* faulty variant: the _retry mark is not looked at
NeedsRefreshIgnoresRetry(s, retried) == s = Unauthorized

\* if (error.response?.status === 401 && !originalRequest._retry)
NeedsRefresh(s, retried) == s = Unauthorized /\ ~retried

\* faulty variant: the login endpoint is not exempted
IsAuthEndpointRefreshOnly(u) == u = RefreshUrl

\* originalRequest.url === '/refresh-token' || originalRequest.url === '/login'
IsAuthEndpoint(u) == u = RefreshUrl \/ u = LoginUrl

\* faulty variant: the flag is not looked at
RefreshInProgressNever == FALSE

\* if (isRefreshing)
RefreshInProgress == isRefreshing

\* faulty variant: the queue is emptied without releasing its continuations
ProcessQueueReleasesNone(error, tok) == <<>>

\* faulty variant: only the first continuation gets the token, the others
\* are rejected
ProcessQueueMixedOutcome(error, tok) ==
    [i \in 1..Len(failedQueue) |->
        IF i = 1
        THEN Job("then", failedQueue[i], tok, NoError)
        ELSE Job("fail", failedQueue[i], NoToken, error)]

\* faulty variant: processQueue(null) is called without the token
ProcessQueueNoToken(error, tok) ==
    [i \in 1..Len(failedQueue) |->
        IF error # NoError
        THEN Job("fail", failedQueue[i], NoToken, error)
        ELSE Job("then", failedQueue[i], NoToken, NoError)]

\* faulty variant: the queued continuations are resolved although the refresh failed
ProcessQueueIgnoresError(error, tok) ==
    [i \in 1..Len(failedQueue) |-> Job("then", failedQueue[i], tok, NoError)]

\* processQueue(error, token): every queued continuation is released, with
\* the rejection when error is given and with the token otherwise
ProcessQueue(error, tok) ==
    [i \in 1..Len(failedQueue) |->
        IF error # NoError
        THEN Job("fail", failedQueue[i], NoToken, error)
        ELSE Job("then", failedQueue[i], tok, NoError)]

\* setAuthState(newAccessToken, userData)
SetAuthState(tok, u) ==
    /\ token' = tok
    /\ isAuthenticated' = TRUE
    /\ user' = u
    /\ activeTab' = "profile"

\* faulty variant: the credential is left in localStorage
ClearAuthStateKeepsToken ==
    /\ token' = token
    /\ isAuthenticated' = FALSE
    /\ user' = NoUser
    /\ activeTab' = "login"

\* clearAuthState()
ClearAuthState ==
    /\ token' = NoToken
    /\ isAuthenticated' = FALSE
    /\ user' = NoUser
    /\ activeTab' = "login"

authVars == <<token, isAuthenticated, user, activeTab>>
hist == <<refreshes, burst>>

\* setTimeout(() => setMessage(''), 5000), in seconds
Delay == 5

\* displayMessage(msg, type): the notice is set and a callback that clears
\* the notice is scheduled; the callbacks scheduled before stay pending
\* (no caller uses the returned cleanup)
DisplayMessage(m) ==
    /\ message' = m
    /\ timers' = timers \cup {clock + Delay}
    /\ setAt' = clock
    /\ clock' = clock

\* faulty variant: the handler rejects with the error it was called with
InitiatorRejectionOriginal(r, refreshError) == ReqError(r, Unauthorized)

\* the error the refresh initiator's handler rejects with when the refresh
\* exchange failed: return Promise.reject(refreshError)
InitiatorRejection(r, refreshError) == refreshError

\* --------------------------------------------------------- client: Init
InitClient ==
    /\ token \in {NoToken, "tokA"}
    /\ isAuthenticated = (token # NoToken)
    /\ user = NoUser
    /\ activeTab = (IF isAuthenticated THEN "profile" ELSE "login")
    /\ message = MsgNone
    /\ timers = {}
    /\ setAt = 0
    /\ clock = 0
    /\ isRefreshing = FALSE
    /\ failedQueue = <<>>
    /\ req = [r \in Reqs |-> IdleReq]
    /\ jobs = <<>>
    /\ refreshes = 0
    /\ burst = TRUE

\* ------------------------------------------------------ client: actions

\* request q is out for the first time and no response to it was handled
FirstFlight(q) == req[q].st = "inflight" /\ req[q].sent = 1 /\ ~req[q].retry

\* renderContent: ProfileView (the profile query, testRefresh, the logout
\* button) is rendered while isAuthenticated, LoginForm otherwise unless
\* the register tab is active
Rendered(u) ==
    IF u = LoginUrl THEN ~isAuthenticated /\ activeTab # "register"
    ELSE isAuthenticated

\* a caller hands a request to axiosInstance (loginMutation, the profile
\* query or testRefresh through apiCall, handleLogout's POST /logout);
\* requests are numbered in the order they are issued
Issue(r, u) ==
    /\ UNCHANGED serverVars
    /\ jobs = <<>>
    /\ req[r].st = "idle"
    /\ Rendered(u)
    /\ \A q \in Reqs : q < r => req[q].st # "idle"
    /\ req' = [req EXCEPT ![r] = Dispatch([@ EXCEPT !.url = u])]
    /\ burst' = (burst /\ \A q \in Reqs : q < r => FirstFlight(q))
    /\ UNCHANGED <<authVars, noticeVars, isRefreshing, failedQueue, jobs, refreshes>>

\* response => response: the caller's continuation is scheduled
ResponseOk(r, tok) ==
    /\ UNCHANGED serverVars
    /\ jobs = <<>>
    /\ req[r].st = "inflight"
    /\ tok \in (IF req[r].url = LoginUrl THEN Tokens ELSE {NoToken})
    /\ req' = [req EXCEPT ![r].st = "settling"]
    /\ jobs' = <<Job("ok", r, tok, NoError)>>
    /\ UNCHANGED <<authVars, noticeVars, isRefreshing, failedQueue, hist>>

\* 401 on the login endpoint: clearAuthState(); return Promise.reject(error)
AuthEndpoint401(r, s) ==
    /\ NeedsRefresh(s, req[r].retry)
    /\ IsAuthEndpoint(req[r].url)
    /\ ClearAuthState
    /\ req' = [req EXCEPT ![r].st = "settling"]
    /\ jobs' = <<Job("fail", r, NoToken, ReqError(r, s))>>
    /\ UNCHANGED <<noticeVars, isRefreshing, failedQueue, hist>>

\* 401 while a refresh is in progress: failedQueue.push({resolve, reject})
Enqueue(r, s) ==
    /\ NeedsRefresh(s, req[r].retry)
    /\ ~IsAuthEndpoint(req[r].url)
    /\ RefreshInProgress
    /\ failedQueue' = Append(failedQueue, r)
    /\ req' = [req EXCEPT ![r].st = "queued"]
    /\ UNCHANGED <<authVars, noticeVars, isRefreshing, jobs, hist>>

\* faulty variant: the flag is not set before the await
StartRefreshFlagNotSet(r, s) ==
    /\ NeedsRefresh(s, req[r].retry)
    /\ ~IsAuthEndpoint(req[r].url)
    /\ ~RefreshInProgress
    /\ isRefreshing' = isRefreshing
    /\ req' = [req EXCEPT ![r].st = "refreshing", ![r].retry = TRUE,
                           ![r].refreshAuth = AttachBearer(NoToken)]
    /\ refreshes' = refreshes + 1
    /\ UNCHANGED <<authVars, noticeVars, failedQueue, jobs, burst>>

\* 401 with no refresh in progress: _retry = true; isRefreshing = true;
\* await axiosInstance.post('/refresh-token')
StartRefresh(r, s) ==
    /\ NeedsRefresh(s, req[r].retry)
    /\ ~IsAuthEndpoint(req[r].url)
    /\ ~RefreshInProgress
    /\ isRefreshing' = TRUE
    /\ req' = [req EXCEPT ![r].st = "refreshing", ![r].retry = TRUE,
                           ![r].refreshAuth = AttachBearer(NoToken)]
    /\ refreshes' = refreshes + 1
    /\ UNCHANGED <<authVars, noticeVars, failedQueue, jobs, burst>>

\* faulty variant: the failure of a replay is caught by the refresh
\* handler's catch block, as it would be under return await
PropagateIntoCatch(r, s) ==
    /\ ~NeedsRefresh(s, req[r].retry)
    /\ req' = [req EXCEPT ![r].st = "catching"]
    /\ jobs' = <<Job("refreshCatch", r, NoToken, RefreshError(s))>>
    /\ UNCHANGED <<authVars, noticeVars, isRefreshing, failedQueue, hist>>

\* any other failure: return Promise.reject(error)
Propagate(r, s) ==
    /\ ~NeedsRefresh(s, req[r].retry)
    /\ req' = [req EXCEPT ![r].st = "settling"]
    /\ jobs' = <<Job("fail", r, NoToken, ReqError(r, s))>>
    /\ UNCHANGED <<authVars, noticeVars, isRefreshing, failedQueue, hist>>

\* the response interceptor's error handler, up to its first await
ResponseError(r, s) ==
    /\ UNCHANGED serverVars
    /\ jobs = <<>>
    /\ req[r].st = "inflight"
    /\ s # 200
    /\ \/ AuthEndpoint401(r, s)
       \/ Enqueue(r, s)
       \/ StartRefresh(r, s)
       \/ Propagate(r, s)

\* the refresh exchange of initiator r succeeded: the handler resumes after
\* its await with the new access token
RefreshOk(r, tok) ==
    /\ UNCHANGED serverVars
    /\ jobs = <<>>
    /\ req[r].st = "refreshing"
    /\ token' = tok
    /\ isRefreshing' = FALSE
    /\ jobs' = ProcessQueue(NoError, tok) \o <<Job("replay", r, tok, NoError)>>
    /\ failedQueue' = <<>>
    /\ req' = [q \in Reqs |->
                 IF q = r THEN [req[q] EXCEPT !.st = "resuming", !.auth = tok,
                                              !.refreshAuth = NoToken]
                 ELSE IF req[q].st = "queued" THEN [req[q] EXCEPT !.st = "resuming"]
                 ELSE req[q]]
    /\ UNCHANGED <<isAuthenticated, user, activeTab, noticeVars, hist>>

\* the refresh exchange of initiator r failed: the POST /refresh-token
\* passes the same response interceptor (a 401 on it clears the auth
\* state), then the initiator's catch block is scheduled
RefreshFailed(r, s) ==
    /\ UNCHANGED serverVars
    /\ jobs = <<>>
    /\ req[r].st = "refreshing"
    /\ s # 200
    /\ IF NeedsRefresh(s, FALSE) /\ IsAuthEndpoint(RefreshUrl)
       THEN ClearAuthState
       ELSE UNCHANGED authVars
    /\ req' = [req EXCEPT ![r].st = "catching", ![r].refreshAuth = NoToken]
    /\ jobs' = <<Job("refreshCatch", r, NoToken, RefreshError(s))>>
    /\ UNCHANGED <<noticeVars, isRefreshing, failedQueue, hist>>

\* catch (refreshError) { isRefreshing = false; processQueue(refreshError);
\* clearAuthState(); displayMessage(...); return Promise.reject(refreshError) }
RefreshCatch ==
    /\ UNCHANGED serverVars
    /\ jobs # <<>>
    /\ Head(jobs).kind = "refreshCatch"
    /\ LET j == Head(jobs) IN
        /\ isRefreshing' = FALSE
        /\ jobs' = Tail(jobs) \o ProcessQueue(j.err, NoToken)
                      \o <<Job("fail", j.r, NoToken, InitiatorRejection(j.r, j.err))>>
        /\ failedQueue' = <<>>
        /\ ClearAuthState
        /\ DisplayMessage(MsgSessionExpired)
        /\ req' = [q \in Reqs |->
                     IF q = j.r THEN [req[q] EXCEPT !.st = "refreshFailed"]
                     ELSE IF req[q].st = "queued" THEN [req[q] EXCEPT !.st = "released"]
                     ELSE req[q]]
    /\ UNCHANGED hist

\* a released continuation: .then(token => { headers.Authorization =
\* `Bearer ${token}`; _retry = true; return axiosInstance(originalRequest) })
QueuedThen ==
    /\ UNCHANGED serverVars
    /\ jobs # <<>>
    /\ Head(jobs).kind = "then"
    /\ LET j == Head(jobs) IN
        /\ req' = [req EXCEPT ![j.r] =
                       Dispatch([@ EXCEPT !.auth = j.tok, !.retry = TRUE])]
        /\ jobs' = Tail(jobs)
    /\ UNCHANGED <<authVars, noticeVars, isRefreshing, failedQueue, hist>>

\* the initiator's replay: return axiosInstance(originalRequest)
InitiatorReplay ==
    /\ UNCHANGED serverVars
    /\ jobs # <<>>
    /\ Head(jobs).kind = "replay"
    /\ req' = [req EXCEPT ![Head(jobs).r] = Dispatch(@)]
    /\ jobs' = Tail(jobs)
    /\ UNCHANGED <<authVars, noticeVars, isRefreshing, failedQueue, hist>>

\* what the caller does once its request has settled
\* handleLogout: finally { clearAuthState(); displayMessage(...) }
LogoutFinally ==
    /\ ClearAuthState
    /\ DisplayMessage(MsgLoggedOut)

\* loginMutation.onSuccess
LoginOnSuccess(tok) ==
    /\ SetAuthState(tok, UserData)
    /\ DisplayMessage(MsgLoginOk)

\* loginMutation.onError
LoginOnError ==
    /\ DisplayMessage(MsgLoginFailed)
    /\ UNCHANGED authVars

\* the request resolves to its caller
CallerResolved ==
    /\ UNCHANGED serverVars
    /\ jobs # <<>>
    /\ Head(jobs).kind = "ok"
    /\ LET j == Head(jobs) IN
        /\ req' = [req EXCEPT ![j.r] = Settled(req[j.r].url, "resolved")]
        /\ jobs' = Tail(jobs)
        /\ CASE req[j.r].url = LoginUrl -> LoginOnSuccess(j.tok)
             [] req[j.r].url = LogoutUrl -> LogoutFinally
             [] OTHER -> UNCHANGED <<authVars, noticeVars>>
    /\ UNCHANGED <<isRefreshing, failedQueue, hist>>

\* the request rejects to its caller
CallerRejected ==
    /\ UNCHANGED serverVars
    /\ jobs # <<>>
    /\ Head(jobs).kind = "fail"
    /\ LET j == Head(jobs) IN
        /\ req' = [req EXCEPT ![j.r] = Settled(req[j.r].url, "rejected")]
        /\ jobs' = Tail(jobs)
        /\ CASE req[j.r].url = LoginUrl -> LoginOnError
             [] req[j.r].url = LogoutUrl -> LogoutFinally
             [] OTHER -> UNCHANGED <<authVars, noticeVars>>
    /\ UNCHANGED <<isRefreshing, failedQueue, hist>>

\* TabButton onClick (the tabs are shown while not authenticated)
SwitchTab(t) ==
    /\ UNCHANGED serverVars
    /\ jobs = <<>>
    /\ ~isAuthenticated
    /\ activeTab # t
    /\ activeTab' = t
    /\ UNCHANGED <<token, isAuthenticated, user, noticeVars, isRefreshing,
                   failedQueue, req, jobs, hist>>

NextClient ==
    \/ \E r \in Reqs, u \in Urls : Issue(r, u)
    \/ \E r \in Reqs, tok \in Tokens \cup {NoToken} : ResponseOk(r, tok)
    \/ \E r \in Reqs, s \in Statuses : ResponseError(r, s)
    \/ \E r \in Reqs, tok \in Tokens : RefreshOk(r, tok)
    \/ \E r \in Reqs, s \in Statuses : RefreshFailed(r, s)
    \/ RefreshCatch
    \/ QueuedThen
    \/ InitiatorReplay
    \/ CallerResolved
    \/ CallerRejected
    \/ \E t \in {"login", "register"} : SwitchTab(t)

\* ----------------------------------------------------------------- server
NumCalls == 2
Calls == 1..NumCalls

Emails == {"a@x.com", "b@x.com"}
Passwords == {[kind |-> "plain", text |-> "password1"],
              [kind |-> "plain", text |-> "password2"]}
NoName == "undefined"
Names == {"Ann", NoName}
Salts == {"saltA", "saltB"}

\* bcrypt.hash(password, 10): a salted one-way digest of the password
BcryptHash(p, salt) == [kind |-> "bcrypt", salt |-> salt, digest |-> p.text]

\* faulty variant: any password is taken for the hashed one
BcryptCompareAny(p, h) == TRUE

\* bcrypt.compare(password, hash)
BcryptCompare(p, h) == h = BcryptHash(p, h.salt)

Conflict == [status |-> "ConflictException"]
NoResult == [status |-> "pending"]

IdleCall == [pc |-> "idle", email |-> "", password |-> [kind |-> "none"],
             name |-> NoName, hashed |-> [kind |-> "none"], result |-> NoResult]

\* the call has returned or thrown: its locals are gone, its caller holds
\* the email it sent and the outcome
Returned(e, outcome) == [IdleCall EXCEPT !.pc = "done", !.email = e, !.result = outcome]

\* faulty variant: the lookup finds nothing
FindOneNothing(e) == {}

\* this.userModel.findOne({ email }).exec(): the matching documents
FindOne(e) == {i \in 1..Len(users) : users[i].email = e}

\* faulty variant: the password is stored instead of its hash
NewUserPlaintext(id, e, p, h, n) == [id |-> id, email |-> e, passwordHash |-> p, name |-> n]

\* new this.userModel({ email, passwordHash: hashedPassword, name })
NewUser(id, e, p, h, n) == [id |-> id, email |-> e, passwordHash |-> h, name |-> n]

\* const { passwordHash: _, ...result } = savedUser.toJSON()
WithoutHash(doc) == [status |-> "created",
                     body |-> [f \in DOMAIN doc \ {"passwordHash"} |-> doc[f]]]

\* ------------------------------------------- server: tokens and responses
NumLogins == 2
Logins == 1..NumLogins

\* signOptions: { expiresIn: '60m' }, in minutes
ExpiresIn == 60

\* the instants at which the server's clock is read, in minutes
Instants == {0, 59, 60, 119}

\* secret: config.get('JWT_SECRET'), and a key that is not the secret
Secret == "JWT_SECRET"
GuessedKey == "guessed"

\* the signature of claims under a key
Hmac(key, claims) == [key |-> key, over |-> claims]

NoClaims == [sub |-> 0, email |-> "", name |-> "", iat |-> 0, exp |-> 0]
NoBearer == [claims |-> NoClaims, sig |-> Hmac("none", NoClaims)]

\* faulty variant: the name claim is filled from the email
LoginPayloadNameIsEmail(u) == [email |-> u.email, sub |-> u.id, name |-> u.email]

\* const payload = { email: user.email, sub: user._id, name: user.name }
LoginPayload(u) == [email |-> u.email, sub |-> u.id, name |-> u.name]

\* faulty variant: the token is signed with twice the lifetime
JwtSignDoubleLifetime(payload, t) ==
    LET claims == [sub |-> payload.sub, email |-> payload.email, name |-> payload.name,
                   iat |-> t, exp |-> t + 2 * ExpiresIn]
    IN [claims |-> claims, sig |-> Hmac(Secret, claims)]

\* this.jwtService.sign(payload) at time t: iat and exp are added, the
\* claims are signed with the secret
JwtSign(payload, t) ==
    LET claims == [sub |-> payload.sub, email |-> payload.email, name |-> payload.name,
                   iat |-> t, exp |-> t + ExpiresIn]
    IN [claims |-> claims, sig |-> Hmac(Secret, claims)]

\* JwtAuthGuard: the bearer token is accepted when its signature is the
\* secret's over its claims and it has not expired
JwtValid(tok, t) ==
    /\ tok # NoBearer
    /\ tok.sig = Hmac(Secret, tok.claims)
    /\ t < tok.claims.exp

\* JwtStrategy.validate: req.user is made of the token's claims
JwtValidate(tok) == [sub |-> tok.claims.sub, email |-> tok.claims.email,
                     name |-> tok.claims.name, iat |-> tok.claims.iat]

UnauthorizedException == "UnauthorizedException"
NotFoundException == "NotFoundException"
Success == "success"

Response(op, request, status, body) ==
    [op |-> op, request |-> request, status |-> status, body |-> body]
NoBody == [message |-> "none"]
NoResponse == Response("none", NoBody, "none", NoBody)

\* faulty variant: the email is taken from the name claim
GetProfileEmailFromName(u) ==
    [message |-> "Access granted to protected route.",
     authenticatedUser |-> [sub |-> u.sub, email |-> u.name,
                            name |-> (IF u.name = NoName THEN "N/A" ELSE u.name),
                            iat |-> u.iat]]

\* getProfile(req): the body made of req.user
GetProfile(u) ==
    [message |-> "Access granted to protected route.",
     authenticatedUser |-> [sub |-> u.sub, email |-> u.email,
                            name |-> (IF u.name = NoName THEN "N/A" ELSE u.name),
                            iat |-> u.iat]]

NoDoc == [id |-> 0]
IdleLogin == [pc |-> "idle", email |-> "", password |-> [kind |-> "none"],
              user |-> NoDoc, outcome |-> "pending", at |-> "none"]

\* the call has returned or thrown: its caller holds the email it sent and
\* the outcome; at is the statement the call ended at
LoginReturned(e, outcome, at) == [IdleLogin EXCEPT !.pc = "done", !.email = e,
                                                   !.outcome = outcome, !.at = at]

InitServer ==
    /\ users = <<>>
    /\ calls = [c \in Calls |-> IdleCall]
    /\ logins = [l \in Logins |-> IdleLogin]
    /\ now = 0
    /\ issued = {}
    /\ resp = NoResponse

\* registerUser up to its second await: the lookup, the conflict check and
\* the hashing of the password
RegisterFind(c, e, p, n, salt) ==
    /\ UNCHANGED clientVars
    /\ calls[c].pc = "idle"
    /\ \A d \in Calls : d < c => calls[d].pc # "idle"
    /\ IF FindOne(e) # {}
       THEN calls' = [calls EXCEPT ![c] = Returned(e, Conflict)]
       ELSE calls' = [calls EXCEPT ![c] = [@ EXCEPT !.pc = "saving", !.email = e,
                                   !.password = p, !.name = n,
                                   !.hashed = BcryptHash(p, salt)]]
    /\ resp' = NoResponse
    /\ UNCHANGED <<users, loginVars>>

\* registerUser from newUser.save() to its return
RegisterSave(c) ==
    /\ UNCHANGED clientVars
    /\ calls[c].pc = "saving"
    /\ LET doc == NewUser(Len(users) + 1, calls[c].email, calls[c].password,
                          calls[c].hashed, calls[c].name) IN
        /\ users' = Append(users, doc)
        /\ calls' = [calls EXCEPT ![c] = Returned(calls[c].email, WithoutHash(doc))]
    /\ resp' = NoResponse
    /\ UNCHANGED loginVars

NextServer ==
    \/ \E c \in Calls, e \in Emails, p \in Passwords, n \in Names, salt \in Salts :
          RegisterFind(c, e, p, n, salt)
    \/ \E c \in Calls : RegisterSave(c)

\* the first of the matching documents, the one findOne resolves to
First(found) == CHOOSE i \in found : \A k \in found : i <= k

\* loginUser up to its second await: the lookup and the check that a user
\* was found
LoginFind(l, e, p) ==
    /\ UNCHANGED clientVars
    /\ logins[l].pc = "idle"
    /\ \A k \in Logins : k < l => logins[k].pc # "idle"
    /\ IF FindOne(e) = {}
       THEN /\ logins' = [logins EXCEPT ![l] = LoginReturned(e, UnauthorizedException, "findOne")]
            /\ resp' = Response("login", [email |-> e, password |-> p],
                                 UnauthorizedException, NoBody)
       ELSE /\ logins' = [logins EXCEPT ![l] = [@ EXCEPT !.pc = "comparing", !.email = e,
                                    !.password = p, !.user = users[First(FindOne(e))]]]
            /\ resp' = NoResponse
    /\ UNCHANGED <<registerVars, now, issued>>

\* loginUser from bcrypt.compare to its return
LoginVerify(l) ==
    /\ UNCHANGED clientVars
    /\ logins[l].pc = "comparing"
    /\ LET call == logins[l]
           request == [email |-> call.email, password |-> call.password]
           accessToken == JwtSign(LoginPayload(call.user), now) IN
        IF ~BcryptCompare(call.password, call.user.passwordHash)
        THEN /\ logins' = [logins EXCEPT ![l] =
                               LoginReturned(call.email, UnauthorizedException, "compare")]
             /\ resp' = Response("login", request, UnauthorizedException, NoBody)
             /\ issued' = issued
        ELSE /\ logins' = [logins EXCEPT ![l] = LoginReturned(call.email, Success, "return")]
             /\ resp' = Response("login", request, Success,
                                  [user |-> WithoutHash(call.user).body,
                                   accessToken |-> accessToken])
             /\ issued' = issued \cup {[token |-> accessToken, email |-> call.email]}
    /\ UNCHANGED <<registerVars, now>>

\* the bearer tokens a client can present: none, an issued one, an issued
\* one with its expiry moved, an issued one signed with another key
Presentable ==
    {NoBearer}
    \cup {i.token : i \in issued}
    \cup {[i.token EXCEPT !.claims.exp = @ + ExpiresIn] : i \in issued}
    \cup {[i.token EXCEPT !.sig = Hmac(GuessedKey, i.token.claims)] : i \in issued}

\* GET /profile: the guard, then getProfile
Profile(tok) ==
    /\ UNCHANGED clientVars
    /\ tok \in Presentable
    /\ resp' = IF JwtValid(tok, now)
               THEN Response("profile", tok, Success, GetProfile(JwtValidate(tok)))
               ELSE Response("profile", tok, UnauthorizedException, NoBody)
    /\ UNCHANGED <<registerVars, logins, now, issued>>

\* the routes of AuthenticationController
RegisterRoute == "/register"
RefreshRoute == "/refresh"
Routes == {RegisterRoute, LoginUrl, RefreshRoute, ProfileUrl}

\* refresh artifacts: one made for a stored user under a key, or none
NoArtifact == [claims |-> [email |-> "", sub |-> 0, name |-> ""],
               sig |-> Hmac("none", "none")]
Artifact(u, key) == [claims |-> LoginPayload(u), sig |-> Hmac(key, LoginPayload(u))]
Artifacts == {Artifact(users[i], key) : i \in 1..Len(users), key \in {Secret, GuessedKey}}
ValidArtifact(a) == a # NoArtifact /\ a.sig = Hmac(Secret, a.claims)

\* authService.refreshToken(refreshToken): a valid refresh artifact is
\* exchanged for a new access token, any other one is refused
RefreshToken(a, t) ==
    IF ValidArtifact(a)
    THEN [status |-> Success, body |-> [accessToken |-> JwtSign(a.claims, t)]]
    ELSE [status |-> UnauthorizedException, body |-> NoBody]

\* the refresh exchange as the client coordinator posts it:
\* axiosInstance.post('/refresh-token') with withCredentials, no body
ClientRefreshExchange(a) == [path |-> RefreshUrl, body |-> NoArtifact, cookie |-> a]

\* a POST to path: the router picks the handler; refresh reads refreshToken
\* from the body; there is no handler for any other path served here
ServePost(path, body, cookie) ==
    /\ UNCHANGED clientVars
    /\ path \in {RefreshRoute, RefreshUrl, LogoutUrl}
    /\ LET request == [path |-> path, body |-> body, cookie |-> cookie] IN
        resp' = IF path \notin Routes
                THEN Response("post", request, NotFoundException, NoBody)
                ELSE LET r == RefreshToken(body, now) IN
                     Response("post", request, r.status, r.body)
    /\ UNCHANGED <<registerVars, logins, now, issued>>

\* time passes
Tick(t) ==
    /\ UNCHANGED clientVars
    /\ t \in Instants
    /\ t > now
    /\ now' = t
    /\ resp' = NoResponse
    /\ UNCHANGED <<registerVars, logins, issued>>

\* the name each registrant gives: one gives a name, the other none
NameOf(e) == IF e = "a@x.com" THEN "Ann" ELSE NoName

NextAuth ==
    \/ \E c \in Calls, e \in Emails, p \in Passwords :
          RegisterFind(c, e, p, NameOf(e), "saltA")
    \/ \E c \in Calls : RegisterSave(c)
    \/ \E l \in Logins, e \in Emails, p \in Passwords : LoginFind(l, e, p)
    \/ \E l \in Logins : LoginVerify(l)
    \/ \E tok \in Presentable : Profile(tok)
    \/ ServePost(LogoutUrl, NoArtifact, NoArtifact)
    \/ \E t \in Instants : Tick(t)

\* the requests a refresh exchange can be: the artifact travels in the body
\* or in the cookie, to the path the server routes or the one the client posts to
NextRefresh ==
    \/ \E c \in Calls, e \in Emails, p \in Passwords :
          RegisterFind(c, e, p, NameOf(e), "saltA")
    \/ \E c \in Calls : RegisterSave(c)
    \/ \E path \in {RefreshRoute, RefreshUrl},
          body \in Artifacts \cup {NoArtifact}, cookie \in Artifacts \cup {NoArtifact} :
          ServePost(path, body, cookie)
    \/ \E t \in Instants : Tick(t)

\* ------------------------------------------- server: the register route
\* registration payloads that break the rules declared on RegisterUserDto
MalformedEmails == {"not-an-email"}
ShortPasswords == {[kind |-> "plain", text |-> "short"],
                   [kind |-> "plain", text |-> ""]}

\* @MinLength(8)
MinLength == 8

\* @IsEmail: the well-formed addresses are the ones in Emails
IsEmail(e) == e \in Emails

\* RegisterUserDto: the messages of the constraints the body breaks
RegisterUserDto(body) ==
    (IF IsEmail(body.email) THEN {} ELSE {"Email must be a valid email address."})
    \cup (IF Len(body.password.text) >= MinLength THEN {}
          ELSE {"Password must be at least 8 characters long."})

\* bootstrap: NestFactory.create, enableCors, listen; no pipe is bound
\* (no useGlobalPipes, no @UsePipes on the controller, no APP_PIPE provider)
ValidationPipe == "ValidationPipe"
GlobalPipes == {}

\* the pipes bound to the route run on the body before the handler
PipeErrors(body) == IF ValidationPipe \in GlobalPipes THEN RegisterUserDto(body) ELSE {}

BadRequest == [status |-> "BadRequestException"]

\* POST /authentication/register: the bound pipes, then register hands the
\* body to registerUser
PostRegister(c, e, p, n, salt) ==
    IF PipeErrors([email |-> e, password |-> p, name |-> n]) # {}
    THEN /\ UNCHANGED clientVars
         /\ calls[c].pc = "idle"
         /\ \A d \in Calls : d < c => calls[d].pc # "idle"
         /\ calls' = [calls EXCEPT ![c] = Returned(e, BadRequest)]
         /\ resp' = NoResponse
         /\ UNCHANGED <<users, loginVars>>
    ELSE RegisterFind(c, e, p, n, salt)

NextRegister ==
    \/ \E c \in Calls, e \in Emails \cup MalformedEmails,
          p \in Passwords \cup ShortPasswords, n \in Names :
          PostRegister(c, e, p, n, "saltA")
    \/ \E c \in Calls : RegisterSave(c)

\* --------------------------------- server: the collection's index on email
\* the error of a save that a unique index on email refuses; registerUser
\* has no handler for it
DuplicateKey == [status |-> "MongoServerError"]

\* newUser.save() when the collection has a unique index on email and a
\* record with the email is stored by now: the save is refused and the
\* error leaves registerUser as it is
RegisterSaveDuplicateKey(c) ==
    /\ UNCHANGED clientVars
    /\ calls[c].pc = "saving"
    /\ \E i \in 1..Len(users) : users[i].email = calls[c].email
    /\ calls' = [calls EXCEPT ![c] = Returned(calls[c].email, DuplicateKey)]
    /\ resp' = NoResponse
    /\ UNCHANGED <<users, loginVars>>

\* concurrent registerUser calls; the collection may or may not have a
\* unique index on email
NextRace ==
    \/ \E c \in Calls, e \in Emails, p \in Passwords, n \in Names, salt \in Salts :
          RegisterFind(c, e, p, n, salt)
    \/ \E c \in Calls : RegisterSave(c)
    \/ \E c \in Calls : RegisterSaveDuplicateKey(c)

\* ------------------------------------------------- client: the notice
MaxClock == 8

MsgRefreshTestOk == "Refresh Test Succeeded!"
MsgRefreshTestFailed == "Refresh Test Failed"

\* a caller shows a notice (testRefresh: displayMessage(...) on either
\* outcome of its call)
ShowNotice(m) ==
    /\ UNCHANGED serverVars
    /\ jobs = <<>>
    /\ DisplayMessage(m)
    /\ UNCHANGED <<authVars, isRefreshing, failedQueue, req, jobs, hist>>

\* a callback scheduled by displayMessage is due and runs: setMessage('')
TimeoutFires(due) ==
    /\ UNCHANGED serverVars
    /\ jobs = <<>>
    /\ due \in timers
    /\ due = clock
    /\ message' = MsgNone
    /\ timers' = timers \ {due}
    /\ UNCHANGED <<setAt, clock>>
    /\ UNCHANGED <<authVars, isRefreshing, failedQueue, req, jobs, hist>>

\* a second passes; a callback that is due runs first
Tock ==
    /\ UNCHANGED serverVars
    /\ jobs = <<>>
    /\ clock < MaxClock
    /\ clock \notin timers
    /\ clock' = clock + 1
    /\ UNCHANGED <<message, timers, setAt>>
    /\ UNCHANGED <<authVars, isRefreshing, failedQueue, req, jobs, hist>>

NextNotice ==
    \/ \E m \in {MsgRefreshTestOk, MsgRefreshTestFailed} : ShowNotice(m)
    \/ \E due \in 0..(MaxClock + Delay) : TimeoutFires(due)
    \/ Tock

\* --------------------------------------------------------- specifications
Init == InitClient /\ InitServer

Next == NextClient

\* the client coordinator
Spec == Init /\ [][Next]_vars

\* the network answers request r, and the refresh exchange r started
NetworkReturns(r) ==
    \/ \E tok \in Tokens \cup {NoToken} : ResponseOk(r, tok)
    \/ \E s \in Statuses : ResponseError(r, s)
RefreshReturns(r) ==
    \/ \E tok \in Tokens : RefreshOk(r, tok)
    \/ \E s \in Statuses : RefreshFailed(r, s)

\* the pending promise continuation runs
Microtask ==
    RefreshCatch \/ QueuedThen \/ InitiatorReplay \/ CallerResolved \/ CallerRejected

\* the client coordinator when every network exchange returns and the
\* event loop runs the pending continuations
SpecLive ==
    /\ Spec
    /\ WF_vars(Microtask)
    /\ \A r \in Reqs : WF_vars(NetworkReturns(r)) /\ WF_vars(RefreshReturns(r))

\* the server's registration service
SpecServer == Init /\ [][NextServer]_vars

\* the server's registration, login and profile routes and its clock
SpecAuth == Init /\ [][NextAuth]_vars

\* the server's refresh route
SpecRefresh == Init /\ [][NextRefresh]_vars

\* the server's register route, from the request to the stored record
SpecRegister == Init /\ [][NextRegister]_vars

\* the server's registration service under concurrent calls
SpecRace == Init /\ [][NextRace]_vars

\* the notice of useMessage under a sequence of displayMessage calls
SpecNotice == Init /\ [][NextNotice]_vars

\* ================================================================= claims

\* the refresh exchange that request r started is on the wire
RefreshInFlight(r) == req[r].st = "refreshing"
NumInFlight == Cardinality({r \in Reqs : RefreshInFlight(r)})

\* request r waits for the outcome of a refresh exchange
Waiting(r) == req[r].st \in {"refreshing", "queued"}

\* request r is handled in this step as a first 401 on a non-auth endpoint
First401Step(r) == req[r].st = "inflight" /\ req'[r].st \in {"queued", "refreshing"}

\* C1: at most one refresh exchange is in flight at any time, and a first
\* 401 on a non-auth endpoint that arrives while one is in flight is put on
\* the queue and dispatches no further refresh.
C1_SingleRefreshInFlight ==
    [][ /\ Cardinality({r \in Reqs : req'[r].st = "refreshing"}) <= 1
        /\ \A r \in Reqs :
              (First401Step(r) /\ NumInFlight >= 1) =>
                 /\ req'[r].st = "queued"
                 /\ failedQueue' = Append(failedQueue, r)
                 /\ refreshes' = refreshes ]_vars

\* C1 witness: two requests are queued behind the one refresh in flight
C1_Witness ==
    /\ NumInFlight = 1
    /\ Len(failedQueue) = 2
    /\ refreshes = 1

\* request r has received its first 401 and was queued or started a refresh
Got401(r) ==
    /\ ~IsAuthEndpoint(req[r].url)
    /\ req[r].retry \/ req[r].st \in {"queued", "resuming"}

\* C2 as stated: whenever all requests were pending together and each has
\* received its 401, exactly one refresh exchange was dispatched, whatever
\* the order of the responses.
C2_ExactlyOneRefreshAnyOrder ==
    (burst /\ \A r \in Reqs : Got401(r)) => refreshes = 1

\* C2 amended: exactly one refresh exchange is dispatched for all the 401s
\* that are handled before that exchange settles (all requests then wait
\* for it); a 401 handled after it settled dispatches a further one, at
\* most one per request.
C2_OneRefreshWhileWaiting ==
    /\ (\A r \in Reqs : Waiting(r)) => (refreshes = 1 /\ NumInFlight = 1)
    /\ (burst /\ \A r \in Reqs : Got401(r)) => refreshes \in 1..NumReq

\* C2 witness: all requests were pending together, each got its 401, and
\* all of them wait for the single refresh exchange
C2_Witness ==
    /\ burst
    /\ \A r \in Reqs : Waiting(r)
    /\ refreshes = 1

\* the requests of a sequence, without repetition
NoDuplicates(seq) == \A i, k \in 1..Len(seq) : seq[i] = seq[k] => i = k

\* C3: when the refresh exchange succeeds the new credential is in the slot
\* before any replay goes out, and the initiator and every queued request
\* are each replayed exactly once, marked retried, with the new credential
\* as bearer.
C3_RefreshSuccessReplays ==
    [][ /\ \A r \in Reqs :
              (req[r].st = "refreshing" /\ req'[r].st = "resuming") =>
                 LET waiting == failedQueue \o <<r>> IN
                 /\ token' \in Tokens
                 /\ NoDuplicates(waiting)
                 /\ Len(jobs') = Len(waiting)
                 /\ \A i \in 1..Len(waiting) :
                       /\ jobs'[i].r = waiting[i]
                       /\ jobs'[i].kind \in {"then", "replay"}
                       /\ jobs'[i].tok = token'
                       /\ req'[waiting[i]].st = "resuming"
                 /\ \A q \in Reqs : req'[q].sent = req[q].sent
                 /\ failedQueue' = <<>>
        /\ \A r \in Reqs :
              (req[r].st = "resuming" /\ req'[r] # req[r]) =>
                 /\ req'[r].st = "inflight"
                 /\ req'[r].retry
                 /\ req'[r].sent = 2 /\ req[r].sent = 1
                 /\ token \in Tokens
                 /\ req'[r].auth = token
                 /\ Head(jobs).r = r /\ Head(jobs).tok = token
                 /\ token' = token ]_vars

\* C3 witness: after one successful refresh the initiator and two queued
\* requests are out again, retried, with the stored credential
C3_Witness ==
    /\ refreshes = 1
    /\ jobs = <<>>
    /\ \A r \in Reqs :
          /\ req[r].st = "inflight" /\ req[r].retry /\ req[r].sent = 2
          /\ req[r].auth = token

\* C4: when the refresh exchange fails, with any status or without a
\* response, every queued request is rejected without being replayed, the
\* credential is removed, the client is unauthenticated on the login tab
\* and the "session expired" notice is set.
C4_RefreshFailure ==
    [][ /\ \A r \in Reqs :
              (req[r].st = "refreshing" /\ req'[r].st \notin {"refreshing", "resuming"}) =>
                 /\ req'[r].st = "catching"
                 /\ jobs' = <<Job("refreshCatch", r, NoToken, jobs'[1].err)>>
                 /\ jobs'[1].err.of = "refresh"
        /\ \A r \in Reqs :
              (req[r].st = "catching" /\ req'[r] # req[r]) =>
                 /\ req'[r].st = "refreshFailed"
                 /\ token' = NoToken
                 /\ ~isAuthenticated'
                 /\ user' = NoUser
                 /\ activeTab' = "login"
                 /\ message' = MsgSessionExpired
                 /\ failedQueue' = <<>>
                 /\ Len(jobs') = Len(failedQueue) + 1
                 /\ \A i \in 1..Len(failedQueue) :
                       /\ jobs'[i] = Job("fail", failedQueue[i], NoToken, Head(jobs).err)
                       /\ req'[failedQueue[i]].st = "released"
                 /\ \A q \in Reqs : req'[q].sent = req[q].sent
        /\ \A q \in Reqs :
              (req[q].st = "released" /\ req'[q] # req[q]) =>
                 /\ req'[q].st = "rejected"
                 /\ Head(jobs).r = q /\ Head(jobs).err.of = "refresh" ]_vars

\* C4 witness: the refresh exchange failed without a response while two
\* requests were queued; the catch block has run
C4_Witness ==
    /\ \E r \in Reqs : req[r].st = "refreshFailed"
    /\ Cardinality({q \in Reqs : req[q].st = "released"}) = 2
    /\ Head(jobs).err = RefreshError(0)
    /\ token = NoToken /\ message = MsgSessionExpired

\* the rejections that are about to reach the caller of a request whose
\* refresh exchange failed
InitiatorRejections ==
    {i \in 1..Len(jobs) : jobs[i].kind = "fail" /\ req[jobs[i].r].st = "refreshFailed"}

\* C5 as stated: when the refresh exchange fails, the caller of the request
\* that started it gets that request's own 401.
C5_InitiatorGetsOriginal401 ==
    \A i \in InitiatorRejections : jobs[i].err = ReqError(jobs[i].r, Unauthorized)

\* C5 amended: when the refresh exchange fails, the caller of the request
\* that started it gets the failure of the refresh exchange, with the
\* status the refresh exchange failed with.
C5_InitiatorGetsRefreshError ==
    /\ \A i \in InitiatorRejections :
          jobs[i].err.of = "refresh" /\ jobs[i].err.status \in Statuses \ {200}
    /\ \A i \in 1..Len(jobs) :
          jobs[i].kind = "refreshCatch" => jobs[i].err.of = "refresh"
    /\ \A r \in Reqs : req[r].st = "refreshFailed" => InitiatorRejections # {}

\* C5 witness: the refresh exchange failed with a 500 and the initiator's
\* rejection is next to reach its caller
C5_Witness ==
    /\ jobs # <<>>
    /\ 1 \in InitiatorRejections
    /\ jobs[1].err = RefreshError(500)

\* C6: a request already marked retried that gets a 401 fails to its caller
\* at once: it is not queued, starts no refresh and is not sent again.
C6_RetriedFailsImmediately ==
    [][ /\ \A r \in Reqs :
              (req[r].st = "inflight" /\ req[r].retry /\ req'[r] # req[r]) =>
                 /\ req'[r] = [req[r] EXCEPT !.st = "settling"]
                 /\ failedQueue' = failedQueue
                 /\ isRefreshing' = isRefreshing
                 /\ refreshes' = refreshes
                 /\ Len(jobs') = 1 /\ jobs'[1].r = r
                 /\ jobs'[1].kind \in {"ok", "fail"}
                 /\ jobs'[1].kind = "fail" => jobs'[1].err.of = "request"
        /\ \A r \in Reqs :
              (req[r].st = "settling" /\ req'[r] # req[r]) =>
                 /\ Head(jobs).r = r
                 /\ req'[r].st = (IF Head(jobs).kind = "fail" THEN "rejected" ELSE "resolved")
        /\ \A r \in Reqs : req'[r].sent <= 2 ]_vars

\* C6 witness: a replayed request got a 401 and its rejection is next to
\* reach its caller
C6_Witness ==
    /\ jobs # <<>>
    /\ Head(jobs).kind = "fail"
    /\ LET r == Head(jobs).r IN
         /\ req[r].st = "settling" /\ req[r].retry /\ req[r].sent = 2
         /\ Head(jobs).err = ReqError(r, Unauthorized)

\* C7: a 401 on the login or the refresh endpoint removes the credential
\* in the same step and goes to the caller; the request is not queued, not
\* replayed and starts no refresh, with or without a refresh in flight.
C7_AuthEndpoint401 ==
    [][ /\ \A r \in Reqs :
              (req[r].st = "inflight" /\ req[r].url = LoginUrl /\ req'[r] # req[r]) =>
                 /\ req'[r] = [req[r] EXCEPT !.st = "settling"]
                 /\ failedQueue' = failedQueue
                 /\ isRefreshing' = isRefreshing
                 /\ refreshes' = refreshes
                 /\ Len(jobs') = 1 /\ jobs'[1].r = r
                 /\ jobs'[1].kind = "fail" =>
                       /\ jobs'[1].err.of = "request"
                       /\ jobs'[1].err.status = Unauthorized =>
                             token' = NoToken /\ ~isAuthenticated'
        /\ \A r \in Reqs :
              (req[r].st = "refreshing" /\ req'[r].st = "catching") =>
                 /\ failedQueue' = failedQueue
                 /\ refreshes' = refreshes
                 /\ \A q \in Reqs : req'[q].sent = req[q].sent
                 /\ jobs'[1].err.status = Unauthorized =>
                       token' = NoToken /\ ~isAuthenticated' ]_vars

\* C7 witness: a login request got a 401 while a refresh exchange was in
\* flight; the credential is gone and the rejection is next to reach the
\* login form
C7_Witness ==
    /\ jobs # <<>>
    /\ Head(jobs).kind = "fail"
    /\ LET r == Head(jobs).r IN
         /\ req[r].url = LoginUrl /\ req[r].st = "settling"
         /\ Head(jobs).err = ReqError(r, Unauthorized)
    /\ NumInFlight = 1
    /\ token = NoToken

\* C8: whatever the server answers to POST /logout, when handleLogout
\* finishes the credential slot is empty and the client is unauthenticated
\* on the login tab.
C8_LogoutAlwaysClears ==
    [][ \A r \in Reqs :
          (req[r].url = LogoutUrl /\ req[r].st \notin {"idle", "resolved", "rejected"}
             /\ req'[r].st \in {"resolved", "rejected"}) =>
             /\ token' = NoToken
             /\ ~isAuthenticated'
             /\ user' = NoUser
             /\ activeTab' = "login" ]_vars

\* C8 witness: handleLogout has finished after its POST /logout failed
C8_Witness ==
    \E r \in Reqs :
        /\ req[r].url = LogoutUrl /\ req[r].st = "rejected"
        /\ token = NoToken /\ ~isAuthenticated /\ activeTab = "login"

\* a call of registerUser moves in this step
Moves(c) == calls'[c] # calls[c]

\* C9: registerUser with an email no stored user has succeeds and adds
\* exactly one record; no stored record holds a plaintext password, only
\* its hash, and the value returned does not hold the hash.
C9_RegisterStoresHashOnly ==
    [][ /\ \A c \in Calls :
              (calls[c].pc = "idle" /\ Moves(c)
                 /\ \A i \in 1..Len(users) : users[i].email # calls'[c].email) =>
                 calls'[c].pc = "saving" /\ users' = users
        /\ \A c \in Calls :
              (calls[c].pc = "saving" /\ Moves(c)) =>
                 /\ Len(users') = Len(users) + 1
                 /\ SubSeq(users', 1, Len(users)) = users
                 /\ users'[Len(users')].email = calls[c].email
                 /\ users'[Len(users')].name = calls[c].name
                 /\ users'[Len(users')].passwordHash.kind = "bcrypt"
                 /\ BcryptCompare(calls[c].password, users'[Len(users')].passwordHash)
                 /\ calls'[c].pc = "done"
                 /\ calls'[c].result.status = "created"
                 /\ calls'[c].result.body.email = calls[c].email
        /\ \A i \in 1..Len(users') :
              /\ DOMAIN users'[i] = {"id", "email", "passwordHash", "name"}
              /\ users'[i].passwordHash \notin Passwords
              /\ users'[i].passwordHash.kind = "bcrypt"
        /\ \A c \in Calls :
              calls'[c].result.status = "created" =>
                 "passwordHash" \notin DOMAIN calls'[c].result.body ]_vars

\* C9 witness: two registrations with different emails have succeeded
C9_Witness ==
    /\ Len(users) = 2
    /\ users[1].email # users[2].email
    /\ \A c \in Calls : calls[c].pc = "done" /\ calls[c].result.status = "created"

\* C10: registerUser with an email a stored user has fails with a conflict
\* and leaves the user store as it was, whatever password and name the
\* payload carries.
C10_DuplicateEmailConflict ==
    [][ \A c \in Calls :
          (calls[c].pc = "idle" /\ Moves(c)
             /\ \E i \in 1..Len(users) : users[i].email = calls'[c].email) =>
             /\ calls'[c].pc = "done"
             /\ calls'[c].result = Conflict
             /\ users' = users ]_vars

\* C10 witness: the second registration used the stored email and got the
\* conflict; the store holds the one record
C10_Witness ==
    /\ Len(users) = 1
    /\ \E c \in Calls :
          /\ calls[c].pc = "done" /\ calls[c].result = Conflict
          /\ calls[c].email = users[1].email

\* the record the lookup by email e resolves to
Registered(e) == {i \in 1..Len(users) :
                    users[i].email = e /\ \A k \in 1..(i - 1) : users[k].email # e}

\* password p is the one record u was registered with
PasswordOf(p, u) == u.passwordHash.kind = "bcrypt" /\ u.passwordHash.digest = p.text

\* a loginUser call moves in this step
LoginMoves(l) == logins'[l] # logins[l]

\* C11: loginUser with the email and the password of a registered user
\* returns an access token whose subject is the stored identifier and whose
\* email and name are the stored ones, signed by the server, together with
\* the user record without its password hash.
C11_LoginReturnsTokenOfUser ==
    [][ /\ \A l \in Logins, i \in 1..Len(users) :
              (logins[l].pc = "idle" /\ LoginMoves(l) /\ i \in Registered(logins'[l].email)) =>
                 /\ logins'[l].pc = "comparing"
                 /\ logins'[l].user = users[i]
        /\ \A l \in Logins :
              (logins[l].pc = "comparing" /\ LoginMoves(l)
                 /\ PasswordOf(logins[l].password, logins[l].user)) =>
                 LET u == logins[l].user IN
                 /\ logins'[l].pc = "done" /\ logins'[l].outcome = Success
                 /\ resp'.op = "login" /\ resp'.status = Success
                 /\ resp'.request.email = u.email
                 /\ resp'.body.accessToken.claims.sub = u.id
                 /\ resp'.body.accessToken.claims.email = u.email
                 /\ resp'.body.accessToken.claims.name = u.name
                 /\ resp'.body.accessToken.sig = Hmac(Secret, resp'.body.accessToken.claims)
                 /\ DOMAIN resp'.body.user = DOMAIN u \ {"passwordHash"}
                 /\ \A f \in DOMAIN resp'.body.user : resp'.body.user[f] = u[f] ]_vars

\* C11 witness: the second of two registered users has logged in and got
\* a token with their identifier
C11_Witness ==
    /\ Len(users) = 2 /\ users[1].email # users[2].email
    /\ resp.op = "login" /\ resp.status = Success
    /\ resp.body.accessToken.claims.sub = users[2].id
    /\ resp.body.user.email = users[2].email

\* C12: loginUser with a wrong password fails with the authorization error
\* on every attempt, issues no token and leaves the user store as it was,
\* whatever attempts came before; a login with the right password after
\* failed attempts still succeeds.
C12_WrongPasswordAlwaysRejected ==
    [][ /\ \A l \in Logins :
              (logins[l].pc = "comparing" /\ LoginMoves(l)
                 /\ ~PasswordOf(logins[l].password, logins[l].user)) =>
                 /\ logins'[l].pc = "done"
                 /\ logins'[l].outcome = UnauthorizedException
                 /\ resp' = Response("login", [email |-> logins[l].email,
                                               password |-> logins[l].password],
                                     UnauthorizedException, NoBody)
                 /\ issued' = issued
        /\ \A l \in Logins : LoginMoves(l) => users' = users
        /\ \A l \in Logins :
              (logins[l].pc = "comparing" /\ LoginMoves(l)
                 /\ PasswordOf(logins[l].password, logins[l].user)
                 /\ \E k \in Logins : logins[k].pc = "done" /\ logins[k].at = "compare"
                                        /\ logins[k].email = logins[l].email) =>
                 /\ logins'[l].outcome = Success
                 /\ resp'.status = Success ]_vars

\* C12 witness: a login with a wrong password was refused and the next
\* login with the same email and the right password has succeeded
C12_Witness ==
    /\ logins[1].pc = "done" /\ logins[1].at = "compare"
    /\ logins[2].pc = "done" /\ logins[2].outcome = Success
    /\ logins[2].email = logins[1].email
    /\ resp.op = "login" /\ resp.status = Success

\* the logins that obtained bearer token tok and whose token is still
\* within its lifetime at time t
LiveIssues(tok, t) == {i \in issued : i.token = tok /\ t < tok.claims.iat + ExpiresIn}

\* C13: GET /profile answers with authenticatedUser made of the sub, email
\* and iat of the presented token, the email being the one of the login
\* that obtained it, exactly when the token is one the server issued and it
\* has not expired; with no token, an altered one or an expired one the
\* answer is the authorization error without profile data.
C13_ProfileIffValidToken ==
    resp.op = "profile" =>
        LET tok == resp.request IN
        IF LiveIssues(tok, now) # {}
        THEN /\ resp.status = Success
             /\ resp.body.authenticatedUser.sub = tok.claims.sub
             /\ resp.body.authenticatedUser.email = tok.claims.email
             /\ resp.body.authenticatedUser.iat = tok.claims.iat
             /\ \A i \in LiveIssues(tok, now) : resp.body.authenticatedUser.email = i.email
        ELSE /\ resp.status = UnauthorizedException
             /\ resp.body = NoBody

\* C13 witness: a token issued earlier to the second registrant was
\* presented and the profile came back
C13_Witness ==
    /\ resp.op = "profile" /\ resp.status = Success
    /\ resp.request.claims.iat < now
    /\ resp.body.authenticatedUser.sub = 2
    /\ resp.body.authenticatedUser.name = "N/A"

\* the instants at which the protected route turns a token issued at iat down
Expired(iat) == {t \in Instants : t >= iat + ExpiresIn}

\* C14: a token issued by login is accepted by the protected route at
\* every time before its issue time plus 60 minutes and refused from then
\* on, whatever the user store holds and whatever registrations, logins or
\* logout requests were served since it was issued.
C14_StatelessExpiry ==
    (resp.op = "profile" /\ \E i \in issued : i.token = resp.request) =>
        /\ resp.request.claims.exp = resp.request.claims.iat + ExpiresIn
        /\ now \in Expired(resp.request.claims.iat) <=> resp.status = UnauthorizedException
        /\ now \notin Expired(resp.request.claims.iat) <=> resp.status = Success

\* C14 witness: the token the first login obtained at time 0 was refused at
\* minute 60, after a second user had registered and logged in
C14_Witness ==
    /\ resp.op = "profile" /\ resp.status = UnauthorizedException
    /\ \E i \in issued : i.token = resp.request
    /\ resp.request.claims.iat = 0 /\ now = ExpiresIn
    /\ Len(users) = 2
    /\ \A l \in Logins : logins[l].pc = "done" /\ logins[l].outcome = Success
    /\ logins[1].email # logins[2].email

\* the refresh artifact a POST carries, in its body or in its cookie
Carried(request) == IF request.body # NoArtifact THEN request.body ELSE request.cookie

\* C17 as stated: the refresh endpoint answers a valid refresh artifact
\* with a new access token and an invalid one with the authorization error,
\* and the refresh exchange as the client coordinator posts it, carrying a
\* valid refresh artifact, obtains a new access token.
C17_ClientRefreshObtainsToken ==
    (resp.op = "post" /\ resp.request.path \in {RefreshRoute, RefreshUrl}) =>
        LET a == Carried(resp.request) IN
        /\ (resp.request.path = RefreshRoute /\ a # NoArtifact /\ a.sig.key # Secret) =>
              resp.status = UnauthorizedException
        /\ (a # NoArtifact /\ a.sig.key = Secret
              /\ (resp.request.path = RefreshRoute \/ resp.request = ClientRefreshExchange(a))) =>
              /\ resp.status = Success
              /\ resp.body.accessToken.claims.sub = a.claims.sub
              /\ resp.body.accessToken.claims.iat = now

\* request r goes out in this step
Dispatched(r) == req'[r].sent = req[r].sent + 1

\* C15: every request that goes out while the credential slot holds a
\* token carries a bearer credential, the refresh exchange included; a
\* request that goes out for the first time carries exactly the token in
\* the slot, and no bearer credential when the slot is empty.
C15_BearerAttached ==
    [][ \A r \in Reqs :
          /\ Dispatched(r) =>
                /\ token # NoToken => req'[r].auth # NoToken
                /\ req[r].sent = 0 => req'[r].auth = token
                /\ token' = token
          /\ (req[r].st = "inflight" /\ req'[r].st = "refreshing") =>
                req'[r].refreshAuth = token ]_vars

\* C15 witness: after a login a first request is out with the token the
\* login stored, while an earlier request still carries the token before it
C15_Witness ==
    \E r, q \in Reqs :
        /\ req[r].st = "inflight" /\ req[r].sent = 1 /\ ~req[r].retry
        /\ token = "tokB" /\ req[r].auth = "tokB"
        /\ req[q].st = "inflight" /\ req[q].auth = "tokA"

\* C16: when every network exchange returns, every request that was issued
\* eventually resolves or rejects to its caller, and no continuation stays
\* on the pending queue for ever: from some point on every request is
\* either not issued yet or settled, and the queue is empty.
C16_EveryRequestSettles ==
    <>[](/\ \A r \in Reqs : req[r].st \in {"idle", "resolved", "rejected"}
         /\ failedQueue = <<>>)

\* C16 witness: two requests wait on the queue for the refresh exchange
\* the third one started
C16_Witness ==
    /\ Len(failedQueue) = 2
    /\ \E r \in Reqs : req[r].st = "refreshing"
    /\ \A r \in Reqs : req[r].st \in {"refreshing", "queued"}

\* the refresh exchange request r started is on the wire, or its failure
\* has arrived and the catch block that handles it is the pending
\* continuation
RefreshUnsettled(r) == req[r].st = "refreshing" \/ req[r].st = "catching"

\* C18: whenever the event loop is between tasks the flag is true exactly
\* when a refresh exchange is on the wire; the flag is set in the step that
\* decides to refresh and dispatches the exchange, and it is cleared only
\* in a step that handles the success or the failure of the exchange.
C18_FlagIffRefreshInFlight ==
    [][ /\ jobs' = <<>> => (isRefreshing' <=> \E r \in Reqs : req'[r].st = "refreshing")
        /\ isRefreshing' <=> \E r \in Reqs : req'[r].st \in {"refreshing", "catching"}
        /\ (~isRefreshing /\ isRefreshing') <=>
              \E r \in Reqs : req[r].st = "inflight" /\ req'[r].st = "refreshing"
        /\ (~isRefreshing /\ isRefreshing') => refreshes' = refreshes + 1
        /\ refreshes' # refreshes => isRefreshing'
        /\ (isRefreshing /\ ~isRefreshing') =>
              \E r \in Reqs : /\ RefreshUnsettled(r)
                              /\ req'[r].st \in {"resuming", "refreshFailed"} ]_vars

\* C18 witness: the flag is up between tasks while the refresh exchange of
\* the second request is on the wire, after an earlier one had settled
C18_Witness ==
    /\ jobs = <<>>
    /\ isRefreshing
    /\ refreshes = 2
    /\ req[2].st = "refreshing"

\* the requests on the pending queue
Queued == {failedQueue[i] : i \in 1..Len(failedQueue)}

\* C19: whenever the flag is false the pending queue is empty; the queue
\* holds each waiting request once; when the refresh settles every queued
\* continuation is released in that one step, all with the token or all
\* with the rejection, and the queue is emptied.
C19_QueueEmptyWhenIdle ==
    [][ /\ ~isRefreshing' => failedQueue' = <<>>
        /\ Queued' = {r \in Reqs : req'[r].st = "queued"}
        /\ Cardinality(Queued') = Len(failedQueue')
        /\ (failedQueue # <<>> /\ failedQueue' # failedQueue) =>
              \/ /\ Len(failedQueue') = Len(failedQueue) + 1
                 /\ SubSeq(failedQueue', 1, Len(failedQueue)) = failedQueue
                 /\ jobs' = jobs
              \/ /\ failedQueue' = <<>>
                 /\ ~isRefreshing'
                 /\ LET released == [i \in 1..Len(failedQueue) |->
                                        jobs'[Len(jobs') - 1 - Len(failedQueue) + i]]
                        outcome == IF \E r \in Reqs : req[r].st = "catching"
                                   THEN "fail" ELSE "then" IN
                    /\ Len(jobs') = Len(jobs) - (IF outcome = "fail" THEN 1 ELSE 0)
                                       + Len(failedQueue) + 1
                    /\ \A i \in 1..Len(failedQueue) :
                          /\ released[i].r = failedQueue[i]
                          /\ released[i].kind = outcome
                    /\ \A i \in 1..Len(jobs') :
                          jobs'[i].r \in Queued =>
                             \A k \in 1..Len(jobs') : jobs'[k].r = jobs'[i].r => k = i ]_vars

\* C19 witness: the refresh failed and the two queued continuations were
\* released with the rejection in one step; the queue is empty
C19_Witness ==
    /\ ~isRefreshing /\ failedQueue = <<>>
    /\ Len(jobs) = 3
    /\ jobs[1].kind = "fail" /\ jobs[2].kind = "fail"
    /\ req[jobs[1].r].st = "released" /\ req[jobs[2].r].st = "released"

\* C20: a request goes out at most twice and starts at most one refresh
\* exchange (it starts one only while not marked retried, and the mark
\* stays until it settles); a refresh exchange that failed is not posted
\* again; so there are never more refresh exchanges than requests.
C20_NoRetryLoop ==
    [][ /\ \A r \in Reqs :
              /\ req'[r].sent <= 2
              /\ (req'[r].st = "refreshing" /\ req[r].st # "refreshing") =>
                    /\ ~req[r].retry /\ req'[r].retry
                    /\ req[r].sent = 1 /\ req'[r].sent = 1
              /\ (req[r].retry /\ ~req'[r].retry) => req'[r].st \in {"resolved", "rejected"}
              /\ req[r].st \in {"catching", "refreshFailed"} =>
                    /\ req'[r].st \in {"catching", "refreshFailed", "rejected"}
                    /\ refreshes' = refreshes
                    /\ req'[r].sent <= req[r].sent
        /\ refreshes' \in {refreshes, refreshes + 1}
        /\ refreshes' <= Cardinality({r \in Reqs : req'[r].st # "idle"}) ]_vars

\* C20 witness: a replayed request got a second 401 and was turned down
\* to its caller after two dispatches and one refresh exchange
C20_Witness ==
    /\ refreshes = 1
    /\ jobs # <<>> /\ Head(jobs).kind = "fail"
    /\ Head(jobs).err = ReqError(Head(jobs).r, Unauthorized)
    /\ req[Head(jobs).r].sent = 2 /\ req[Head(jobs).r].retry
    /\ \A r \in Reqs : req[r].st # "idle"

\* the registration body that call c carries breaks a rule of the DTO
MalformedCall(call) ==
    \/ ~IsEmail(call.email)
    \/ call.password.kind = "plain" /\ Len(call.password.text) < MinLength

\* C21 as stated: a registration request that is malformed (password
\* shorter than 8 characters, empty password, or an invalid email) is
\* rejected with a validation error and creates no user record.
C21_MalformedRegistrationRejected ==
    [][ /\ \A c \in Calls :
              (calls[c].pc = "idle" /\ Moves(c) /\ MalformedCall(calls'[c])) =>
                 /\ calls'[c].pc = "done"
                 /\ calls'[c].result = BadRequest
          /\ \A d \in Calls :
              (calls[d].pc = "saving" /\ MalformedCall(calls[d])) => users' = users ]_vars

\* the statuses of a failure that is not a 401: another status, or no
\* response at all
NonAuthFailures == Statuses \ {200, Unauthorized}

\* what the coordinator holds: the flag, the queue, the stored credential
\* and the authentication state
CoordinatorState == <<isRefreshing, failedQueue, token, isAuthenticated, user>>

\* no request goes out and no refresh exchange is dispatched in this step
NothingDispatched ==
    /\ refreshes' = refreshes
    /\ \A q \in Reqs : /\ req'[q].sent = req[q].sent
                       /\ req'[q].st = "refreshing" => req[q].st = "refreshing"

\* C22: a response failure that is not a 401 (any other status, or no
\* response) leaves the refresh flag, the pending queue and the stored
\* credential as they were, dispatches no refresh and no replay, and is
\* handed to the caller as the rejection of its request; this holds for
\* the failure of a request and for the failure of the refresh exchange,
\* whose caller is the handler that awaits it.
C22_NonAuthFailureFrame ==
    [][ \A r \in Reqs, s \in NonAuthFailures :
          /\ ResponseError(r, s) =>
                /\ UNCHANGED CoordinatorState
                /\ NothingDispatched
                /\ req'[r].st = "settling"
                /\ jobs' = <<Job("fail", r, NoToken, ReqError(r, s))>>
          /\ RefreshFailed(r, s) =>
                /\ UNCHANGED CoordinatorState
                /\ NothingDispatched
                /\ jobs' = <<Job("refreshCatch", r, NoToken, RefreshError(s))>> ]_vars

\* C22 witness: while a refresh is in flight with a request waiting in the
\* queue and a credential stored, another request has failed without a 401
\* and its rejection is on its way to the caller
C22_Witness ==
    /\ jobs # <<>>
    /\ Head(jobs).kind = "fail"
    /\ Head(jobs).err.of = "request"
    /\ Head(jobs).err.status \in NonAuthFailures
    /\ isRefreshing
    /\ failedQueue # <<>>
    /\ token # NoToken

\* a quiescent point: no continuation is pending, no request and no refresh
\* exchange is on the wire, nothing waits in the queue
Quiescent ==
    /\ jobs = <<>>
    /\ ~isRefreshing
    /\ failedQueue = <<>>
    /\ \A r \in Reqs : req[r].st \in {"idle", "resolved", "rejected"}

\* C23 as stated: at every quiescent point isAuthenticated is true exactly
\* when the credential slot holds a token, for every interleaving of login
\* completion, logout, 401 handling and refresh completion.
C23_AuthenticatedIffToken ==
    Quiescent => (isAuthenticated <=> token # NoToken)

\* C24 as stated: for every interleaving of concurrent registerUser calls
\* carrying the same email, at most one call creates a record and every
\* other call fails with a conflict; the user store never holds two
\* records with the same email.
C24_ConcurrentSameEmail ==
    /\ \A i, j \in 1..Len(users) : users[i].email = users[j].email => i = j
    /\ \A c, d \in Calls :
          (/\ c # d
           /\ calls[c].pc = "done" /\ calls[d].pc = "done"
           /\ calls[c].email = calls[d].email
           /\ calls[c].result.status = "created") => calls[d].result = Conflict

\* request r is out again after a successful refresh: the initiator's
\* replay or the replay of a released continuation
Replayed(r) == req[r].retry /\ req[r].sent = 2

\* C25: after a successful refresh, the failure of a replay (of the
\* initiating request or of a queued one, with any status) is handed to
\* that request's caller only: handling it leaves the stored credential,
\* the authentication state, the notice, the flag and the queue as they
\* were, starts no refresh, and leaves every other request as it is; and
\* the rejection of a profile caller changes none of these either (the
\* logout caller clears the state on every outcome of its request).
C25_ReplayFailureIsolated ==
    [][ /\ \A r \in Reqs, s \in Statuses \ {200} :
              (Replayed(r) /\ ResponseError(r, s)) =>
                 /\ UNCHANGED <<token, isAuthenticated, user, activeTab, message>>
                 /\ UNCHANGED <<isRefreshing, failedQueue, refreshes>>
                 /\ jobs' = <<Job("fail", r, NoToken, ReqError(r, s))>>
                 /\ \A q \in Reqs \ {r} : req'[q] = req[q]
        /\ (/\ CallerRejected
            /\ Replayed(Head(jobs).r)
            /\ Head(jobs).err.of = "request"
            /\ req[Head(jobs).r].url = ProfileUrl) =>
                 /\ UNCHANGED <<token, isAuthenticated, user, activeTab, message>>
                 /\ UNCHANGED <<isRefreshing, failedQueue, refreshes>>
                 /\ \A q \in Reqs \ {Head(jobs).r} : req'[q] = req[q] ]_vars

\* C25 witness: after a successful refresh the replay of one request has
\* failed and its rejection is on its way to the caller, while the replay
\* of another request is still out; the new credential is in the slot, the
\* client is authenticated and no session-expired notice is shown
C25_Witness ==
    /\ jobs # <<>>
    /\ Head(jobs).kind = "fail"
    /\ Head(jobs).err.of = "request"
    /\ Replayed(Head(jobs).r)
    /\ \E q \in Reqs \ {Head(jobs).r} : Replayed(q) /\ req[q].st = "inflight"
    /\ token = "tokB"
    /\ isAuthenticated
    /\ message # MsgSessionExpired

\* C26 as stated: for every sequence of displayMessage calls, each notice
\* stays displayed for its own full 5-second period measured from the call
\* that set it, unless a later displayMessage call replaces it, and is
\* then cleared.
C26_NoticeFullPeriod ==
    [][ /\ (message # MsgNone /\ message' = MsgNone) => clock = setAt + Delay
        /\ message # MsgNone => clock <= setAt + Delay ]_vars

====
